---- MODULE Spec2Model ----
(***************************************************************************)
(* Model of the AROME run-discovery and windowed-download protocol:        *)
(*   core/downloaders/arome001_downloader.py  (class arome001_downloader)  *)
(*   core/downloaders/arome_downloader.py     (class AromeDownloader)      *)
(*                                                                         *)
(* A Python str is a sequence of one-character strings.  A datetime is the *)
(* tuple <<year, month, day, hour, minute, second>>.                       *)
(***************************************************************************)
EXTENDS Integers, Sequences, FiniteSets, TLC

(***************************************************************************)
(* Python str primitives                                                   *)
(***************************************************************************)

\* str.startswith(p)
StartsWith(s, p) == Len(p) <= Len(s) /\ SubSeq(s, 1, Len(p)) = p

\* str.endswith(x)
EndsWith(s, x) == Len(x) <= Len(s) /\ SubSeq(s, Len(s) - Len(x) + 1, Len(s)) = x

\* One bound of a slice s[a:b]: a negative index counts from the end, and
\* every index is clamped into 0..len(s).
SliceIndex(i, n) ==
    IF i < 0 THEN (IF i + n < 0 THEN 0 ELSE i + n)
             ELSE (IF i > n THEN n ELSE i)

\* s[start:stop]
PySlice(s, start, stop) ==
    LET lo == SliceIndex(start, Len(s))
        hi == SliceIndex(stop, Len(s))
    IN  IF lo >= hi THEN << >> ELSE SubSeq(s, lo + 1, hi)

\* str.find(sub) with 1-based positions; 0 when sub does not occur
FindStr(s, sub) ==
    LET hits == {i \in 1..(Len(s) - Len(sub) + 1) : SubSeq(s, i, i + Len(sub) - 1) = sub}
    IN  IF hits = {} THEN 0 ELSE CHOOSE i \in hits : \A j \in hits : i <= j

\* str.split(sep): the list of the parts between the occurrences of sep
RECURSIVE SplitStr(_, _)
SplitStr(s, sep) ==
    LET i == FindStr(s, sep)
    IN  IF i = 0 THEN <<s>>
        ELSE <<SubSeq(s, 1, i - 1)>> \o SplitStr(SubSeq(s, i + Len(sep), Len(s)), sep)

\* template.format(name=value) for a template whose only braces are the
\* replacement field {name}: every field is replaced by the value.
RECURSIVE FormatStr(_, _, _)
FormatStr(template, field, value) ==
    LET i == FindStr(template, field)
    IN  IF i = 0 THEN template
        ELSE SubSeq(template, 1, i - 1) \o value
             \o FormatStr(SubSeq(template, i + Len(field), Len(template)), field, value)

\* str comparison a > b (lexicographic by code point)
Ord(c) ==
    CASE c = "-" -> 45 [] c = "." -> 46
      [] c = "0" -> 48 [] c = "1" -> 49 [] c = "2" -> 50 [] c = "3" -> 51
      [] c = "4" -> 52 [] c = "5" -> 53 [] c = "6" -> 54 [] c = "7" -> 55
      [] c = "8" -> 56 [] c = "9" -> 57 [] c = ":" -> 58
      [] c = "A" -> 65 [] c = "H" -> 72 [] c = "I" -> 73 [] c = "M" -> 77
      [] c = "N" -> 78 [] c = "P" -> 80 [] c = "R" -> 82 [] c = "T" -> 84
      [] c = "X" -> 88 [] c = "Z" -> 90 [] c = "_" -> 95
      [] c = "t" -> 116 [] c = "z" -> 122
      [] OTHER -> 127

RECURSIVE StrGreater(_, _)
StrGreater(a, b) ==
    IF a = << >> THEN FALSE
    ELSE IF b = << >> THEN TRUE
    ELSE IF Head(a) = Head(b) THEN StrGreater(Tail(a), Tail(b))
    ELSE Ord(Head(a)) > Ord(Head(b))

(***************************************************************************)
(* datetime.strptime / strftime / comparison / timedelta(hours=1)          *)
(***************************************************************************)

DigitChars == <<"0", "1", "2", "3", "4", "5", "6", "7", "8", "9">>

IsDigit(c) == \E i \in 1..10 : DigitChars[i] = c

DigitVal(c) == (CHOOSE i \in 1..10 : DigitChars[i] = c) - 1

\* "%Y-%m-%dT%H.%M.%SZ": the run-time format of the coverage ids
RunTimeFormat == <<"%Y", "-", "%m", "-", "%d", "T", "%H", ".", "%M", ".", "%S", "Z">>

\* "%Y-%m-%dT%H:%M:%SZ": the format of the window and subset times
SubsetTimeFormat == <<"%Y", "-", "%m", "-", "%d", "T", "%H", ":", "%M", ":", "%S", "Z">>

IsDirective(item) == item \in {"%Y", "%m", "%d", "%H", "%M", "%S"}

\* Index of a directive's field in the datetime tuple
FieldIndex(item) ==
    CASE item = "%Y" -> 1 [] item = "%m" -> 2 [] item = "%d" -> 3
      [] item = "%H" -> 4 [] item = "%M" -> 5 [] item = "%S" -> 6

\* The two-digit values a directive's regular expression accepts
TwoDigitOk(item, v) ==
    CASE item = "%m" -> v \in 1..12
      [] item = "%d" -> v \in 1..31
      [] item = "%H" -> v \in 0..23
      [] item = "%M" -> v \in 0..59
      [] item = "%S" -> v \in 0..61
      [] OTHER -> FALSE

\* The one-digit values a directive's regular expression accepts
OneDigitOk(item, v) ==
    CASE item \in {"%m", "%d"} -> v \in 1..9
      [] item \in {"%H", "%M", "%S"} -> v \in 0..9
      [] OTHER -> FALSE

\* The format's regular expression is compiled with IGNORECASE
LiteralMatches(c, lit) ==
    \/ c = lit
    \/ lit = "T" /\ c = "t"
    \/ lit = "Z" /\ c = "z"

IsLeap(y) == (y % 4 = 0 /\ y % 100 # 0) \/ y % 400 = 0

DaysInMonth(y, m) ==
    IF m = 2 THEN (IF IsLeap(y) THEN 29 ELSE 28)
    ELSE IF m \in {4, 6, 9, 11} THEN 30 ELSE 31

\* The datetime constructor's range checks
ValidDateTime(d) ==
    /\ d[1] >= 1
    /\ d[3] <= DaysInMonth(d[1], d[2])
    /\ d[6] <= 59

ParseFail == [ok |-> FALSE, dt |-> <<0, 0, 0, 0, 0, 0>>]

\* Matching of the format's regular expression from item k at position pos,
\* alternatives tried in the expression's order (two digits before one).
RECURSIVE ParseFrom(_, _, _, _, _)
ParseFrom(s, pos, fmt, k, acc) ==
    IF k > Len(fmt)
    THEN IF pos = Len(s) + 1 /\ ValidDateTime(acc)
         THEN [ok |-> TRUE, dt |-> acc] ELSE ParseFail
    ELSE LET item == fmt[k]
             dig(i) == pos + i <= Len(s) /\ IsDigit(s[pos + i])
             val(i) == DigitVal(s[pos + i])
         IN  IF ~IsDirective(item)
             THEN IF pos <= Len(s) /\ LiteralMatches(s[pos], item)
                  THEN ParseFrom(s, pos + 1, fmt, k + 1, acc) ELSE ParseFail
             ELSE IF item = "%Y"
             THEN IF dig(0) /\ dig(1) /\ dig(2) /\ dig(3)
                  THEN ParseFrom(s, pos + 4, fmt, k + 1,
                         [acc EXCEPT ![1] = 1000 * val(0) + 100 * val(1) + 10 * val(2) + val(3)])
                  ELSE ParseFail
             ELSE LET two == IF dig(0) /\ dig(1) /\ TwoDigitOk(item, 10 * val(0) + val(1))
                             THEN ParseFrom(s, pos + 2, fmt, k + 1,
                                    [acc EXCEPT ![FieldIndex(item)] = 10 * val(0) + val(1)])
                             ELSE ParseFail
                  IN  IF two.ok THEN two
                      ELSE IF dig(0) /\ OneDigitOk(item, val(0))
                      THEN ParseFrom(s, pos + 1, fmt, k + 1,
                             [acc EXCEPT ![FieldIndex(item)] = val(0)])
                      ELSE ParseFail

\* datetime.strptime(s, fmt): ok = FALSE stands for the ValueError
Strptime(s, fmt) == ParseFrom(s, 1, fmt, 1, <<1900, 1, 1, 0, 0, 0>>)

Pad2(n) == <<DigitChars[(n \div 10) + 1], DigitChars[(n % 10) + 1]>>

Pad4(n) == <<DigitChars[(n \div 1000) + 1], DigitChars[((n \div 100) % 10) + 1]>> \o Pad2(n % 100)

\* datetime.strftime(fmt)
RECURSIVE StrftimeFrom(_, _, _)
StrftimeFrom(d, fmt, k) ==
    IF k > Len(fmt) THEN << >>
    ELSE (IF fmt[k] = "%Y" THEN Pad4(d[1])
          ELSE IF IsDirective(fmt[k]) THEN Pad2(d[FieldIndex(fmt[k])])
          ELSE <<fmt[k]>>) \o StrftimeFrom(d, fmt, k + 1)

Strftime(d, fmt) == StrftimeFrom(d, fmt, 1)

\* datetime comparison a > b
RECURSIVE TupleGreater(_, _, _)
TupleGreater(a, b, i) ==
    IF i > 6 THEN FALSE
    ELSE IF a[i] = b[i] THEN TupleGreater(a, b, i + 1)
    ELSE a[i] > b[i]

DtGreater(a, b) == TupleGreater(a, b, 1)

\* datetime comparison a <= b
DtLeq(a, b) == ~DtGreater(a, b)

\* d + timedelta(hours=1)
AddHour(d) ==
    IF d[4] < 23 THEN [d EXCEPT ![4] = d[4] + 1]
    ELSE IF d[3] < DaysInMonth(d[1], d[2]) THEN [d EXCEPT ![3] = d[3] + 1, ![4] = 0]
    ELSE IF d[2] < 12 THEN [d EXCEPT ![2] = d[2] + 1, ![3] = 1, ![4] = 0]
    ELSE [d EXCEPT ![1] = d[1] + 1, ![2] = 1, ![3] = 1, ![4] = 0]

(***************************************************************************)
(* Configuration and the bounded input sets                                *)
(***************************************************************************)

\* Hours a coverage window spans at most (end - start)
MaxHours == 1

\* Timed-out attempts the server produces within one call at most
MaxTimeouts == 1

\* Coverage ids a capabilities document lists at most
MaxIds == 2

\* Calls made on one downloader instance at most
MaxCalls == 2

Rain == <<"r", "a", "i", "n">>

Temp == <<"t", "e", "m", "p">>

Snow == <<"s", "n", "o", "w">>

\* The data types a caller asks for; Snow is in no configuration
DataTypes == {Rain, Temp, Snow}

\* The placeholder of settings["data_types"][..]["coverage_id"]
RunTimeField == <<"{", "r", "u", "n", "_", "t", "i", "m", "e", "}">>

\* The placeholder of settings["data_type_mapping"][..]
ReferenceTimeField == <<"{", "r", "e", "f", "e", "r", "e", "n", "c", "e", "_", "t", "i", "m", "e", "}">>

RainPrefix == <<"R", "A", "I", "N", "_", "_", "_">>

TempPrefix == <<"T", "E", "M", "P", "_", "_", "_">>

HourlySuffix == <<"_", "P", "T", "1", "H">>

\* settings: data type -> coverage-id template around the given placeholder.
\* Each class reads its own settings: those of arome001_downloader have
\* RAIN___{run_time} and TEMP___{run_time}_PT1H, the mapping of AromeDownloader
\* has RAIN___{reference_time}_PT1H and TEMP___{reference_time}.
Templates(field) ==
    [d \in {Rain, Temp} |->
        IF (d = Rain) = (field = RunTimeField)
        THEN (IF d = Rain THEN RainPrefix ELSE TempPrefix) \o field
        ELSE (IF d = Rain THEN RainPrefix ELSE TempPrefix) \o field \o HourlySuffix]

\* dict.get(data_type): << >> stands for None
TemplateOf(field, data_type) ==
    IF data_type \in DOMAIN Templates(field) THEN Templates(field)[data_type] ELSE << >>

\* The instants of the model runs
RunInstants == {<<2024, 11, 30, 21, 0, 0>>, <<2024, 11, 30, 22, 0, 0>>}

\* Run identifiers, in the run-time format
RunIds == {Strftime(r, RunTimeFormat) : r \in RunInstants}

\* The instants at which a coverage window starts
WindowStarts == {<<2024, 11, 30, 23, 0, 0>>}

RECURSIVE AddHours(_, _)
AddHours(d, n) == IF n = 0 THEN d ELSE AddHours(AddHour(d), n - 1)

\* The bodies a DescribeCoverage request is answered with: a time-period
\* envelope with begin and end position, or a document without envelope.
NoEnvelope == [envelope |-> FALSE, begin |-> << >>, end |-> << >>]

\* Ends of windows that are no whole number of hours after the start, or
\* before it
OddEnds == {<<2024, 11, 30, 22, 0, 0>>, <<2024, 12, 1, 0, 30, 0>>}

WindowEnds(s) == {AddHours(s, n) : n \in 0..MaxHours} \cup OddEnds

DescribeBodies ==
    UNION {{[envelope |-> TRUE,
             begin |-> Strftime(s, SubsetTimeFormat),
             end |-> Strftime(e, SubsetTimeFormat)] : e \in WindowEnds(s)} : s \in WindowStarts}
    \cup {NoEnvelope}

\* The coverage ids the service of the class with the given placeholder lists
ListedIds(field) ==
    {FormatStr(Templates(field)[d], field, r) : d \in {Rain, Temp}, r \in RunIds}

\* The sequences of at most n different elements of S: a service lists a
\* coverage once
RECURSIVE SeqsUpTo(_, _)
SeqsUpTo(S, n) ==
    IF n = 0 THEN {<< >>}
    ELSE LET shorter == SeqsUpTo(S, n - 1)
         IN  shorter \cup
             UNION {{Append(q, x) : x \in {y \in S : \A i \in 1..Len(q) : q[i] # y}} :
                      q \in shorter}

\* A CoverageSummary element without CoverageId child
NoCoverageId == <<"">>

\* The bodies a GetCapabilities request is answered with: XML whose
\* CoverageSummary elements carry the given CoverageId texts in order, XML
\* with a CoverageSummary that has no CoverageId, or text that is no XML.
NoDoc == [xml |-> TRUE, summaries |-> << >>]

Malformed == [xml |-> FALSE, summaries |-> << >>]

CapabilitiesDocs(field) ==
    {[xml |-> TRUE, summaries |-> q] : q \in SeqsUpTo(ListedIds(field), MaxIds)}
    \cup {[xml |-> TRUE, summaries |-> <<NoCoverageId>>], Malformed}

\* What one requests.get attempt ends in: a 2xx response, requests.exceptions.Timeout,
\* or another RequestException (connection failure, raise_for_status on non-2xx)
Outcomes == {"ok", "timeout", "error"}

(***************************************************************************)
(* State                                                                   *)
(***************************************************************************)

VARIABLES
    cls,        \* the class of the downloader instance: "arome001_downloader" or "AromeDownloader"
    pc,         \* "idle", or the request the running call waits on:
                \* "GetCapabilities", "DescribeCoverage", "GetCoverage"
    local,      \* the running (or last) call's arguments and local variables
    fetch,      \* the running (or last) request loop: its attempts and sleeps
    requests,   \* the requests.get attempts of the running (or last) call, in order
    written,    \* the files the running (or last) call has written, in order
    doc,        \* the capabilities body the running (or last) call received
    dirExists,  \* os.path.exists(output_dir)
    files,      \* the output directory: file name -> content
    result,     \* how the last call ended; NoResult while a call is running
    calls,      \* the number of calls made so far
    prev        \* the download that completed right before the running (or last) call, if one did

vars == <<cls, pc, local, fetch, requests, written, doc, dirExists, files, result, calls, prev>>

NoTime == <<0, 0, 0, 0, 0, 0>>

NoLocal ==
    [op |-> "", data_type |-> << >>, run_time |-> << >>, coverage_id |-> << >>,
     start_time_str |-> << >>, end_time_str |-> << >>,
     end_time |-> NoTime, current_time |-> NoTime]

NoFetch == [endpoint |-> "", timeouts |-> 0, waits |-> 0, state |-> "none"]

NewFetch(endpoint) == [endpoint |-> endpoint, timeouts |-> 0, waits |-> 0, state |-> "pending"]

\* The request loop after one more attempt: a timed-out attempt is counted,
\* and so is the time.sleep(2) the loop does when it retries.
Attempted(f, outcome, todo) ==
    [f EXCEPT !.timeouts = IF outcome = "timeout" THEN @ + 1 ELSE @,
              !.waits = IF todo = "sleep" THEN @ + 1 ELSE @,
              !.state = IF todo = "sleep" THEN "pending" ELSE outcome]

NoFiles == [n \in {} |-> << >>]

\* How a call ends.  kind: "None" (return None, also the implicit one), "str"
\* (a returned string, in str), "items" (a returned tuple or list of strings),
\* "raise" (an exception of class exc left the call).
\* exit names the statement the call ended at.
ReturnNone(exit) == [kind |-> "None", str |-> << >>, items |-> << >>, exc |-> "", exit |-> exit]

ReturnStr(s, exit) == [kind |-> "str", str |-> s, items |-> << >>, exc |-> "", exit |-> exit]

\* A returned tuple or list of strings, in items
ReturnItems(items, exit) ==
    [kind |-> "items", str |-> << >>, items |-> items, exc |-> "", exit |-> exit]

Raise(exc, exit) == [kind |-> "raise", str |-> << >>, items |-> << >>, exc |-> exc, exit |-> exit]

NoResult == [kind |-> "none", str |-> << >>, items |-> << >>, exc |-> "", exit |-> ""]

\* f"time({current_time_str})"
SubsetParam(time_str) == <<"t", "i", "m", "e", "(">> \o time_str \o <<")">>

\* One requests.get attempt as the server sees it, with what it ended in
Attempt(endpoint, coverage_id, subset, outcome) ==
    [endpoint |-> endpoint, coverage_id |-> coverage_id, subset |-> subset, outcome |-> outcome]

CountTimeouts(reqs) == Cardinality({i \in 1..Len(reqs) : reqs[i].outcome = "timeout"})

\* The service lets at most MaxTimeouts attempts of one call time out
ServerMay(outcome) == outcome = "timeout" => CountTimeouts(requests) < MaxTimeouts

\* The content of an hourly file is the body the service sent for the
\* request's coverage id and subset; that of run_info.json is the dict dumped.
GribBody(coverage_id, subset) ==
    [coverage_id |-> coverage_id, subset |-> subset,
     run_time |-> << >>, start_time |-> << >>, end_time |-> << >>]

RunInfo(run_time, start_time_str, end_time_str) ==
    [coverage_id |-> << >>, subset |-> << >>,
     run_time |-> run_time, start_time |-> start_time_str, end_time |-> end_time_str]

RunInfoName == <<"r", "u", "n", "_", "i", "n", "f", "o", ".", "j", "s", "o", "n">>

GribExt == <<".", "g", "r", "i", "b">>

\* open(path, "w").write(content) on the directory d
PutFile(d, name, content) ==
    [n \in DOMAIN d \cup {name} |-> IF n = name THEN content ELSE d[n]]

\* What is kept of a completed download once the next call has begun: its
\* arguments, its window, the files it wrote and the directory's names after it
Summary(loc, wr, names) ==
    [op |-> loc.op, data_type |-> loc.data_type, run_time |-> loc.run_time,
     start_time_str |-> loc.start_time_str, end_time_str |-> loc.end_time_str,
     written |-> wr, after |-> names]

NoPrev == Summary(NoLocal, << >>, {})

Init ==
    /\ cls \in {"arome001_downloader", "AromeDownloader"}
    /\ pc = "idle"
    /\ local = NoLocal
    /\ fetch = NoFetch
    /\ requests = << >>
    /\ written = << >>
    /\ doc = NoDoc
    /\ dirExists = FALSE
    /\ files = NoFiles
    /\ result = NoResult
    /\ calls = 0
    /\ prev = NoPrev

\* A call is made on an idle instance; the call that ended last becomes the
\* previous one.
BeginCall ==
    /\ pc = "idle"
    /\ calls < MaxCalls
    /\ calls' = calls + 1
    /\ prev' = IF result.exit = "completed" THEN Summary(local, written, DOMAIN files)
               ELSE NoPrev

\* The call ends with result res, the directory being (ex, fs) and the call
\* having made the attempts reqs and written the files wr.
EndCall(res, loc, f, reqs, wr, ex, fs) ==
    /\ pc' = "idle"
    /\ cls' = cls
    /\ result' = res
    /\ local' = loc
    /\ fetch' = f
    /\ requests' = reqs
    /\ written' = wr
    /\ dirExists' = ex
    /\ files' = fs

\* The call goes on to wait on a request of the given endpoint
Await(endpoint, loc, f, reqs, wr, ex, fs) ==
    /\ pc' = endpoint
    /\ local' = loc
    /\ fetch' = f
    /\ requests' = reqs
    /\ written' = wr
    /\ dirExists' = ex
    /\ files' = fs
    /\ cls' = cls
    /\ result' = NoResult

(***************************************************************************)
(* class arome001_downloader                                               *)
(***************************************************************************)

\* Mutant: `except RequestException` retries like `except Timeout`
arome001_on_attempt_retry_all(outcome) ==
    CASE outcome = "ok" -> "break"
      [] outcome = "timeout" -> "sleep"
      [] outcome = "error" -> "sleep"

\* Mutant: `except Timeout` gives up like `except RequestException`
arome001_on_attempt_no_retry(outcome) ==
    CASE outcome = "ok" -> "break"
      [] outcome = "timeout" -> "return"
      [] outcome = "error" -> "return"

\* The request loop `while True: try ... except Timeout: sleep(2) except
\* RequestException: return None`: what the loop does on an attempt's outcome
arome001_on_attempt(outcome) ==
    CASE outcome = "ok" -> "break"
      [] outcome = "timeout" -> "sleep"
      [] outcome = "error" -> "return"

\* What the single requests.get of get_status ends in.  response is
\* <<status_code>> of the response received, << >> when requests.get raised:
\* a Timeout, or another RequestException such as a ConnectionError.  outcome
\* is what the attempt counts as: a response below 400 is "ok", one from 400
\* on is "error" (get_status does not call raise_for_status).
StatusReplies ==
    {[outcome |-> "ok", response |-> <<c>>] : c \in {200, 204}}
    \cup {[outcome |-> "error", response |-> <<c>>] : c \in {500}}
    \cup {[outcome |-> o, response |-> << >>] : o \in {"timeout", "error"}}

Online == <<"o", "n", "l", "i", "n", "e">>

Offline == <<"o", "f", "f", "l", "i", "n", "e">>

\* get_status(), up to its request
get_status ==
    /\ cls = "arome001_downloader"
    /\ BeginCall
    /\ doc' = NoDoc
    /\ Await("GetCapabilities", [NoLocal EXCEPT !.op = "get_status"],
             NewFetch("GetCapabilities"), << >>, << >>, dirExists, files)

\* `if response.status_code == 200: return "online" else: return "offline"`
get_status_result(status_code) ==
    IF status_code = 200 THEN ReturnStr(Online, "online") ELSE ReturnStr(Offline, "offline")

\* The request of get_status and the rest of the call: the request is made
\* once, outside any try and any loop, so an exception of requests.get
\* leaves the call; nothing sleeps and nothing is retried
get_status_attempt(reply) ==
    /\ cls = "arome001_downloader"
    /\ pc = "GetCapabilities"
    /\ local.op = "get_status"
    /\ ServerMay(reply.outcome)
    /\ UNCHANGED <<calls, prev>>
    /\ doc' = doc
    /\ LET reqs == Append(requests, Attempt("GetCapabilities", << >>, << >>, reply.outcome))
           f == Attempted(fetch, reply.outcome, "return")
       IN  IF reply.response = << >>
           THEN EndCall(IF reply.outcome = "timeout" THEN Raise("Timeout", "timeout")
                        ELSE Raise("ConnectionError", "request_failed"),
                        local, f, reqs, written, dirExists, files)
           ELSE EndCall(get_status_result(reply.response[1]),
                        local, f, reqs, written, dirExists, files)

\* get_available_datas(): list(self.settings["data_types"].keys()), the
\* configured data types in the order of the settings
get_available_datas ==
    /\ cls = "arome001_downloader"
    /\ BeginCall
    /\ doc' = NoDoc
    /\ EndCall(ReturnItems(<<Rain, Temp>>, "listed"),
               [NoLocal EXCEPT !.op = "get_available_datas"],
               NoFetch, << >>, << >>, dirExists, files)

\* The scan of the CoverageId elements in get_last_run.  latest is
\* [has, dt]: latest_run_time, has = FALSE for None.  raised: strptime raised.
RECURSIVE get_last_run_scan(_, _, _, _, _)
get_last_run_scan(ids, i, pattern_prefix, pattern_suffix, latest) ==
    IF i > Len(ids) THEN [raised |-> FALSE, has |-> latest.has, dt |-> latest.dt]
    ELSE IF StartsWith(ids[i], pattern_prefix) /\ EndsWith(ids[i], pattern_suffix)
    THEN LET run_time == Strptime(PySlice(ids[i], Len(pattern_prefix), 0 - Len(pattern_suffix)),
                                  RunTimeFormat)
         IN  IF ~run_time.ok THEN [raised |-> TRUE, has |-> latest.has, dt |-> latest.dt]
             ELSE IF ~latest.has \/ DtGreater(run_time.dt, latest.dt)
             THEN get_last_run_scan(ids, i + 1, pattern_prefix, pattern_suffix,
                                    [has |-> TRUE, dt |-> run_time.dt])
             ELSE get_last_run_scan(ids, i + 1, pattern_prefix, pattern_suffix, latest)
    ELSE get_last_run_scan(ids, i + 1, pattern_prefix, pattern_suffix, latest)

\* root.findall(".//wcs:CoverageSummary/wcs:CoverageId"): the CoverageId
\* elements, a summary without one contributing none
get_last_run_findall(summaries) == SelectSeq(summaries, LAMBDA x : x # NoCoverageId)

\* get_last_run from the received capabilities body on
get_last_run_result(data_type, body) ==
    LET parts == SplitStr(TemplateOf(RunTimeField, data_type), RunTimeField)
        scan == get_last_run_scan(get_last_run_findall(body.summaries), 1, parts[1], parts[2],
                                  [has |-> FALSE, dt |-> NoTime])
    IN  IF ~body.xml THEN Raise("ParseError", "fromstring")
        ELSE IF scan.raised THEN Raise("ValueError", "strptime")
        ELSE IF ~scan.has THEN ReturnNone("not_found")
        ELSE ReturnStr(Strftime(scan.dt, RunTimeFormat), "found")

\* get_last_run(data_type), up to its first request
get_last_run(data_type) ==
    /\ cls = "arome001_downloader"
    /\ BeginCall
    /\ doc' = NoDoc
    /\ LET loc == [NoLocal EXCEPT !.op = "get_last_run", !.data_type = data_type]
       IN  IF TemplateOf(RunTimeField, data_type) = << >>
           THEN EndCall(ReturnNone("unconfigured"), loc, NoFetch, << >>, << >>, dirExists, files)
           ELSE Await("GetCapabilities", loc, NewFetch("GetCapabilities"), << >>, << >>,
                      dirExists, files)

\* One attempt of the capabilities request of get_last_run, and the call's
\* statements up to its next attempt or its end
get_last_run_attempt(outcome, body) ==
    /\ cls = "arome001_downloader"
    /\ pc = "GetCapabilities"
    /\ local.op = "get_last_run"
    /\ ServerMay(outcome)
    /\ UNCHANGED <<calls, prev>>
    /\ LET reqs == Append(requests, Attempt("GetCapabilities", << >>, << >>, outcome))
           todo == arome001_on_attempt(outcome)
       IN  CASE todo = "sleep" ->
                  /\ doc' = doc
                  /\ Await("GetCapabilities", local,
                           Attempted(fetch, outcome, todo),
                           reqs, written, dirExists, files)
             [] todo = "return" ->
                  /\ doc' = doc
                  /\ EndCall(ReturnNone("request_failed"), local,
                             Attempted(fetch, outcome, todo), reqs, written, dirExists, files)
             [] todo = "break" ->
                  /\ doc' = body
                  /\ EndCall(get_last_run_result(local.data_type, body), local,
                             Attempted(fetch, outcome, todo), reqs, written, dirExists, files)

\* Mutant: while current_time < end_time
download_run_continues_strict(current_time, end_time) == DtGreater(end_time, current_time)

\* while current_time <= end_time
download_run_continues(current_time, end_time) == DtLeq(current_time, end_time)

\* The head of the hourly loop of download_run with current_time = current:
\* the next GetCoverage request, or after the loop run_info.json and the end
download_run_loop(current, loc, f, reqs, wr, ex, fs) ==
    IF download_run_continues(current, loc.end_time)
    THEN Await("GetCoverage", [loc EXCEPT !.current_time = current], NewFetch("GetCoverage"),
               reqs, wr, ex, fs)
    ELSE IF ~ex
    THEN EndCall(Raise("FileNotFoundError", "open_run_info"), [loc EXCEPT !.current_time = current],
                 f, reqs, wr, ex, fs)
    ELSE EndCall(ReturnNone("completed"), [loc EXCEPT !.current_time = current], f, reqs,
                 Append(wr, [name |-> RunInfoName, subset |-> << >>]), ex,
                 PutFile(fs, RunInfoName, RunInfo(loc.run_time, loc.start_time_str, loc.end_time_str)))

\* Mutant: os.makedirs(output_dir, exist_ok=True) without the rmtree
download_run_keep(ex, fs) == [exists |-> TRUE, files |-> fs]

\* Mutant: `if exists: rmtree else: makedirs`
download_run_clear_or_make(ex, fs) == [exists |-> ~ex, files |-> NoFiles]

\* The output directory after `if exists: rmtree; makedirs`
download_run_clear(ex, fs) == [exists |-> TRUE, files |-> NoFiles]

\* download_run(data_type, run_time, output_dir), up to its first request
\* (the DescribeCoverage request of _get_run_time_range)
download_run(data_type, run_time) ==
    /\ cls = "arome001_downloader"
    /\ BeginCall
    /\ doc' = NoDoc
    /\ LET loc == [NoLocal EXCEPT !.op = "download_run", !.data_type = data_type,
                                  !.run_time = run_time]
           template == TemplateOf(RunTimeField, data_type)
           dir == download_run_clear(dirExists, files)
       IN  IF template = << >>
           THEN EndCall(ReturnNone("unconfigured"), loc, NoFetch, << >>, << >>, dirExists, files)
           ELSE Await("DescribeCoverage",
                      [loc EXCEPT !.coverage_id = FormatStr(template, RunTimeField, run_time)],
                      NewFetch("DescribeCoverage"), << >>, << >>, dir.exists, dir.files)

\* One attempt of the description request of _get_run_time_range, the rest of
\* _get_run_time_range and download_run's statements up to the next request
get_run_time_range_attempt(outcome, body) ==
    /\ cls = "arome001_downloader"
    /\ pc = "DescribeCoverage"
    /\ ServerMay(outcome)
    /\ UNCHANGED <<calls, prev>>
    /\ doc' = doc
    /\ LET reqs == Append(requests, Attempt("DescribeCoverage", local.coverage_id, << >>, outcome))
           todo == arome001_on_attempt(outcome)
           start_time == Strptime(body.begin, SubsetTimeFormat)
           end_time == Strptime(body.end, SubsetTimeFormat)
           loc == [local EXCEPT !.start_time_str = body.begin, !.end_time_str = body.end,
                                !.end_time = end_time.dt]
       IN  CASE todo = "sleep" ->
                  Await("DescribeCoverage", local,
                           Attempted(fetch, outcome, todo),
                           reqs, written, dirExists, files)
             [] todo = "return" ->
                  \* return None, which download_run unpacks into two names
                  EndCall(Raise("TypeError", "unpack"), local,
                          Attempted(fetch, outcome, todo), reqs, written, dirExists, files)
             [] todo = "break" ->
                  IF ~body.envelope
                  THEN \* root.find(...) is None, and None has no attribute text
                       EndCall(Raise("AttributeError", "no_envelope"), local,
                               Attempted(fetch, outcome, todo), reqs, written, dirExists, files)
                  ELSE IF ~start_time.ok \/ ~end_time.ok
                  THEN EndCall(Raise("ValueError", "strptime"),
                               [local EXCEPT !.start_time_str = body.begin,
                                             !.end_time_str = body.end],
                               Attempted(fetch, outcome, todo), reqs, written, dirExists, files)
                  ELSE download_run_loop(start_time.dt, loc, Attempted(fetch, outcome, todo),
                                         reqs, written, dirExists, files)

\* f"{data_type}_{current_time_str}.grib"
download_run_file_name(data_type, run_time, current_time_str) ==
    data_type \o <<"_">> \o current_time_str \o GribExt

\* One attempt of the GetCoverage request of the hour current_time, and
\* download_run's statements up to the next request or the end
download_run_attempt(outcome) ==
    /\ cls = "arome001_downloader"
    /\ pc = "GetCoverage"
    /\ ServerMay(outcome)
    /\ UNCHANGED <<calls, prev>>
    /\ doc' = doc
    /\ LET current_time_str == Strftime(local.current_time, SubsetTimeFormat)
           subset == SubsetParam(current_time_str)
           reqs == Append(requests, Attempt("GetCoverage", local.coverage_id, subset, outcome))
           todo == arome001_on_attempt(outcome)
           name == download_run_file_name(local.data_type, local.run_time, current_time_str)
       IN  CASE todo = "sleep" ->
                  Await("GetCoverage", local,
                           Attempted(fetch, outcome, todo),
                           reqs, written, dirExists, files)
             [] todo = "return" ->
                  EndCall(ReturnNone("request_failed"), local,
                          Attempted(fetch, outcome, todo), reqs, written, dirExists, files)
             [] todo = "break" ->
                  IF ~dirExists
                  THEN EndCall(Raise("FileNotFoundError", "open_grib"), local,
                               Attempted(fetch, outcome, todo), reqs, written, dirExists, files)
                  ELSE download_run_loop(AddHour(local.current_time), local,
                                         Attempted(fetch, outcome, todo), reqs,
                                         Append(written, [name |-> name, subset |-> subset]),
                                         dirExists,
                                         PutFile(files, name, GribBody(local.coverage_id, subset)))

(***************************************************************************)
(* class AromeDownloader                                                   *)
(***************************************************************************)

\* `try: requests.get ... except Timeout: raise Exception except
\* RequestException: raise Exception`: what the call does on the attempt's outcome
AromeDownloader_on_attempt(outcome) ==
    CASE outcome = "ok" -> "break"
      [] outcome = "timeout" -> "raise"
      [] outcome = "error" -> "raise"

\* The scan of the CoverageSummary elements in get_latest_run.  latest is
\* [raised, time]: time is latest_time, << >> for None (None and "" are both
\* false); raised: summary.find(...) was None, which has no attribute text.
RECURSIVE get_latest_run_scan(_, _, _, _, _)
get_latest_run_scan(ids, i, pattern_prefix, pattern_suffix, latest) ==
    IF i > Len(ids) THEN [raised |-> FALSE, time |-> latest]
    ELSE IF ids[i] = NoCoverageId THEN [raised |-> TRUE, time |-> latest]
    ELSE IF StartsWith(ids[i], pattern_prefix) /\ EndsWith(ids[i], pattern_suffix)
    THEN LET reference_time == PySlice(ids[i], Len(pattern_prefix), 0 - Len(pattern_suffix))
         IN  IF latest = << >> \/ StrGreater(reference_time, latest)
             THEN get_latest_run_scan(ids, i + 1, pattern_prefix, pattern_suffix, reference_time)
             ELSE get_latest_run_scan(ids, i + 1, pattern_prefix, pattern_suffix, latest)
    ELSE get_latest_run_scan(ids, i + 1, pattern_prefix, pattern_suffix, latest)

\* Mutant: `if not latest_time: return None`
get_latest_run_result_none(data_type, body) ==
    LET parts == SplitStr(TemplateOf(ReferenceTimeField, data_type), ReferenceTimeField)
        scan == get_latest_run_scan(body.summaries, 1, parts[1], parts[2], << >>)
    IN  IF ~body.xml THEN Raise("ParseError", "fromstring")
        ELSE IF scan.raised THEN Raise("AttributeError", "no_coverage_id")
        ELSE IF scan.time = << >> THEN ReturnNone("not_found")
        ELSE ReturnStr(scan.time, "found")

\* get_latest_run from the received capabilities body on
get_latest_run_result(data_type, body) ==
    LET parts == SplitStr(TemplateOf(ReferenceTimeField, data_type), ReferenceTimeField)
        scan == get_latest_run_scan(body.summaries, 1, parts[1], parts[2], << >>)
    IN  IF ~body.xml THEN Raise("ParseError", "fromstring")
        ELSE IF scan.raised THEN Raise("AttributeError", "no_coverage_id")
        ELSE IF scan.time = << >> THEN Raise("Exception", "not_found")
        ELSE ReturnStr(scan.time, "found")

\* get_latest_run(data_type), up to its request
get_latest_run(data_type) ==
    /\ cls = "AromeDownloader"
    /\ BeginCall
    /\ doc' = NoDoc
    /\ LET loc == [NoLocal EXCEPT !.op = "get_latest_run", !.data_type = data_type]
       IN  IF TemplateOf(ReferenceTimeField, data_type) = << >>
           THEN EndCall(Raise("ValueError", "unconfigured"), loc, NoFetch, << >>, << >>,
                        dirExists, files)
           ELSE Await("GetCapabilities", loc, NewFetch("GetCapabilities"), << >>, << >>,
                      dirExists, files)

\* The capabilities request of get_latest_run and the rest of the call
get_latest_run_attempt(outcome, body) ==
    /\ cls = "AromeDownloader"
    /\ pc = "GetCapabilities"
    /\ ServerMay(outcome)
    /\ UNCHANGED <<calls, prev>>
    /\ LET reqs == Append(requests, Attempt("GetCapabilities", << >>, << >>, outcome))
           todo == AromeDownloader_on_attempt(outcome)
       IN  CASE todo = "raise" ->
                  /\ doc' = doc
                  /\ EndCall(Raise("Exception", IF outcome = "timeout" THEN "timeout"
                                                ELSE "request_failed"), local,
                             Attempted(fetch, outcome, todo),
                             reqs, written, dirExists, files)
             [] todo = "break" ->
                  /\ doc' = body
                  /\ EndCall(get_latest_run_result(local.data_type, body), local,
                             Attempted(fetch, outcome, todo), reqs, written, dirExists, files)

\* Mutant: while current_time != stop_datetime
download_last_run_continues_until(current_time, stop_datetime) == current_time # stop_datetime

\* while current_time <= stop_datetime
download_last_run_continues(current_time, stop_datetime) == DtLeq(current_time, stop_datetime)

\* The head of the hourly loop of download_last_run with current_time =
\* current: the next GetCoverage request, or after the loop the end
download_last_run_loop(current, loc, f, reqs, wr, ex, fs) ==
    IF download_last_run_continues(current, loc.end_time)
    THEN Await("GetCoverage", [loc EXCEPT !.current_time = current], NewFetch("GetCoverage"),
               reqs, wr, ex, fs)
    ELSE EndCall(ReturnNone("completed"), [loc EXCEPT !.current_time = current], f, reqs,
                 wr, ex, fs)

\* download_last_run(data_type, reference_time, output_dir), up to its first
\* request (the DescribeCoverage request of get_coverage_time_range)
download_last_run(data_type, reference_time) ==
    /\ cls = "AromeDownloader"
    /\ BeginCall
    /\ doc' = NoDoc
    /\ LET loc == [NoLocal EXCEPT !.op = "download_last_run", !.data_type = data_type,
                                  !.run_time = reference_time]
           template == TemplateOf(ReferenceTimeField, data_type)
       IN  IF template = << >>
           THEN EndCall(Raise("ValueError", "unconfigured"), loc, NoFetch, << >>, << >>,
                        dirExists, files)
           ELSE Await("DescribeCoverage",
                      [loc EXCEPT !.coverage_id =
                                     FormatStr(template, ReferenceTimeField, reference_time)],
                      NewFetch("DescribeCoverage"), << >>, << >>, dirExists, files)

\* get_coverage_time_range(coverage_id) called on its own, up to its request
get_coverage_time_range(coverage_id) ==
    /\ cls = "AromeDownloader"
    /\ BeginCall
    /\ doc' = NoDoc
    /\ Await("DescribeCoverage",
             [NoLocal EXCEPT !.op = "get_coverage_time_range", !.coverage_id = coverage_id],
             NewFetch("DescribeCoverage"), << >>, << >>, dirExists, files)

\* How get_coverage_time_range ends on its request's outcome and body: it
\* raises on a failed request and on a body without envelope, and returns
\* the pair (begin_position, end_position) otherwise
get_coverage_time_range_result(outcome, body) ==
    IF AromeDownloader_on_attempt(outcome) = "raise"
    THEN Raise("Exception", IF outcome = "timeout" THEN "timeout" ELSE "request_failed")
    ELSE IF ~body.envelope THEN Raise("Exception", "no_envelope")
    ELSE ReturnItems(<<body.begin, body.end>>, "resolved")

\* The description request of get_coverage_time_range and the rest of it;
\* when download_last_run called it, also download_last_run's statements up
\* to the next request
get_coverage_time_range_attempt(outcome, body) ==
    /\ cls = "AromeDownloader"
    /\ pc = "DescribeCoverage"
    /\ ServerMay(outcome)
    /\ UNCHANGED <<calls, prev>>
    /\ doc' = doc
    /\ LET reqs == Append(requests, Attempt("DescribeCoverage", local.coverage_id, << >>, outcome))
           f == Attempted(fetch, outcome, AromeDownloader_on_attempt(outcome))
           range == get_coverage_time_range_result(outcome, body)
           start_time == range.items[1]
           stop_time == range.items[2]
           start_datetime == Strptime(start_time, SubsetTimeFormat)
           stop_datetime == Strptime(stop_time, SubsetTimeFormat)
           loc == [local EXCEPT !.start_time_str = start_time, !.end_time_str = stop_time,
                                !.end_time = stop_datetime.dt]
       IN  IF range.kind = "raise" \/ local.op = "get_coverage_time_range"
           THEN EndCall(range, local, f, reqs, written, dirExists, files)
           ELSE IF ~start_datetime.ok \/ ~stop_datetime.ok
           THEN EndCall(Raise("ValueError", "strptime"),
                        [local EXCEPT !.start_time_str = start_time,
                                      !.end_time_str = stop_time],
                        f, reqs, written, dirExists, files)
           ELSE download_last_run_loop(start_datetime.dt, loc, f, reqs, written,
                                       dirExists, files)

\* f"{data_type}_{reference_time}_{subset_time}.grib"
download_last_run_file_name(data_type, reference_time, subset_time) ==
    data_type \o <<"_">> \o reference_time \o <<"_">> \o subset_time \o GribExt

\* The GetCoverage request of the hour current_time, and download_last_run's
\* statements up to the next request or the end
download_last_run_attempt(outcome) ==
    /\ cls = "AromeDownloader"
    /\ pc = "GetCoverage"
    /\ ServerMay(outcome)
    /\ UNCHANGED <<calls, prev>>
    /\ doc' = doc
    /\ LET subset_time == Strftime(local.current_time, SubsetTimeFormat)
           subset == SubsetParam(subset_time)
           reqs == Append(requests, Attempt("GetCoverage", local.coverage_id, subset, outcome))
           todo == AromeDownloader_on_attempt(outcome)
           name == download_last_run_file_name(local.data_type, local.run_time, subset_time)
       IN  CASE todo = "raise" ->
                  EndCall(Raise("Exception", IF outcome = "timeout" THEN "timeout"
                                             ELSE "request_failed"), local,
                          Attempted(fetch, outcome, todo),
                          reqs, written, dirExists, files)
             [] todo = "break" ->
                  \* os.makedirs(output_dir, exist_ok=True), then the file is written
                  download_last_run_loop(AddHour(local.current_time), local,
                                         Attempted(fetch, outcome, todo), reqs,
                                         Append(written, [name |-> name, subset |-> subset]),
                                         TRUE,
                                         PutFile(files, name, GribBody(local.coverage_id, subset)))

(***************************************************************************)
(* The script main.py                                                      *)
(***************************************************************************)

\* str(None), what format() puts in for a None argument
NoneStr == <<"N", "o", "n", "e">>

\* latest_run = downloader.get_latest_run(data_type="rain"), the script's
\* first call on the AromeDownloader it constructed
main_get_latest_run ==
    /\ calls = 0
    /\ get_latest_run(Rain)

\* downloader.download_last_run(data_type="rain", reference_time=latest_run,
\* ...): reached when get_latest_run returned; an exception that left it
\* has ended the script
main_download_last_run ==
    /\ calls = 1
    /\ pc = "idle"
    /\ result.kind # "raise"
    /\ download_last_run(Rain, IF result.kind = "None" THEN NoneStr ELSE result.str)

Next ==
    \/ get_status
    \/ \E d \in DataTypes : get_last_run(d)
    \/ \E reply \in StatusReplies : get_status_attempt(reply)
    \/ get_available_datas
    \/ \E o \in Outcomes, b \in CapabilitiesDocs(RunTimeField) : get_last_run_attempt(o, b)
    \/ \E d \in DataTypes, r \in RunIds : download_run(d, r)
    \/ \E o \in Outcomes, b \in DescribeBodies : get_run_time_range_attempt(o, b)
    \/ \E o \in Outcomes : download_run_attempt(o)
    \/ \E d \in DataTypes : get_latest_run(d)
    \/ \E o \in Outcomes, b \in CapabilitiesDocs(ReferenceTimeField) : get_latest_run_attempt(o, b)
    \/ \E d \in DataTypes, r \in RunIds : download_last_run(d, r)
    \/ \E c \in ListedIds(ReferenceTimeField) : get_coverage_time_range(c)
    \/ \E o \in Outcomes, b \in DescribeBodies : get_coverage_time_range_attempt(o, b)
    \/ \E o \in Outcomes : download_last_run_attempt(o)

Spec == Init /\ [][Next]_vars

\* What executions of main.py leave in ./grib_files: download_last_run makes
\* the directory when it writes a file and removes nothing, so the hourly
\* files of earlier executions stay, those of the first kept[r] hours of
\* the window for each run r they downloaded
LeftEntries(kept) ==
    UNION {{<<r, AddHours(s, n - 1)>> : s \in WindowStarts, n \in 1..kept[r]} : r \in RunIds}

LeftName(e) ==
    download_last_run_file_name(Rain, e[1], Strftime(e[2], SubsetTimeFormat))

LeftFiles(kept) ==
    [name \in {LeftName(e) : e \in LeftEntries(kept)} |->
        LET e == CHOOSE x \in LeftEntries(kept) : LeftName(x) = name
        IN  GribBody(FormatStr(TemplateOf(ReferenceTimeField, Rain), ReferenceTimeField, e[1]),
                     SubsetParam(Strftime(e[2], SubsetTimeFormat)))]

LeftDirs == {LeftFiles(kept) : kept \in [RunIds -> 0..(MaxHours + 1)]}

\* The executions of main.py: it constructs an AromeDownloader; its output
\* directory ./grib_files is absent, or exists with the files earlier
\* executions left in it
MainInit ==
    /\ cls = "AromeDownloader"
    /\ pc = "idle"
    /\ local = NoLocal
    /\ fetch = NoFetch
    /\ requests = << >>
    /\ written = << >>
    /\ doc = NoDoc
    /\ files \in LeftDirs
    /\ dirExists = (files # NoFiles)
    /\ result = NoResult
    /\ calls = 0
    /\ prev = NoPrev

MainNext ==
    \/ main_get_latest_run
    \/ main_download_last_run
    \/ \E o \in Outcomes, b \in CapabilitiesDocs(ReferenceTimeField) : get_latest_run_attempt(o, b)
    \/ \E o \in Outcomes, b \in DescribeBodies : get_coverage_time_range_attempt(o, b)
    \/ \E o \in Outcomes : download_last_run_attempt(o)

SpecMain == MainInit /\ [][MainNext]_vars

\* The run downloads of an arome001_downloader, under the assumption that
\* no request times out forever: a request that is being waited for
\* eventually gets a success or a failure that is no timeout
DownloadInit == Init /\ cls = "arome001_downloader"

DownloadNext ==
    \/ \E d \in DataTypes, r \in RunIds : download_run(d, r)
    \/ \E o \in Outcomes, b \in DescribeBodies : get_run_time_range_attempt(o, b)
    \/ \E o \in Outcomes : download_run_attempt(o)

Answered(o) == o \in Outcomes \ {"timeout"}

SpecDownload ==
    /\ DownloadInit
    /\ [][DownloadNext]_vars
    /\ WF_vars(\E o \in Outcomes, b \in DescribeBodies :
                  Answered(o) /\ get_run_time_range_attempt(o, b))
    /\ WF_vars(\E o \in Outcomes : Answered(o) /\ download_run_attempt(o))

(***************************************************************************)
(* Properties                                                              *)
(***************************************************************************)

\* The hours from 2020-01-01T00:00:00 to the hour of datetime d, counted on
\* the calendar (independently of AddHour)
RECURSIVE DaysBeforeYear(_)
DaysBeforeYear(y) ==
    IF y <= 2020 THEN 0 ELSE DaysBeforeYear(y - 1) + (IF IsLeap(y - 1) THEN 366 ELSE 365)

RECURSIVE DaysBeforeMonth(_, _)
DaysBeforeMonth(y, m) ==
    IF m <= 1 THEN 0 ELSE DaysBeforeMonth(y, m - 1) + DaysInMonth(y, m - 1)

AbsHours(d) == 24 * (DaysBeforeYear(d[1]) + DaysBeforeMonth(d[1], d[2]) + d[3] - 1) + d[4]

\* The seconds from 2020-01-01T00:00:00 to datetime d, counted on the calendar
AbsSeconds(d) == 3600 * AbsHours(d) + 60 * d[5] + d[6]

IsDownload == local.op \in {"download_run", "download_last_run"}

IsDiscovery == local.op \in {"get_last_run", "get_latest_run"}

AllOk(reqs) == \A i \in 1..Len(reqs) : reqs[i].outcome = "ok"

IsCoverage(r) == r.endpoint = "GetCoverage"

CoverageRequests == SelectSeq(requests, IsCoverage)

\* The subset time inside "time(...)"
SubsetTimeOf(subset) == Strptime(SubSeq(subset, 6, Len(subset) - 1), SubsetTimeFormat).dt

\* The window the running (or last) download resolved, parsed
WindowStart == Strptime(local.start_time_str, SubsetTimeFormat)

WindowEnd == Strptime(local.end_time_str, SubsetTimeFormat)

\* The window is e - s = a non-negative whole number of hours
WholeHourWindow ==
    /\ WindowStart.ok /\ WindowEnd.ok
    /\ WindowStart.dt[5] = WindowEnd.dt[5] /\ WindowStart.dt[6] = WindowEnd.dt[6]
    /\ AbsHours(WindowEnd.dt) >= AbsHours(WindowStart.dt)

\* A download has ended whose requests all succeeded and whose window [s, e]
\* is a whole number of hours long
EndedAllOk == pc = "idle" /\ IsDownload /\ AllOk(requests) /\ WholeHourWindow

\* C1: a run download with window [s, e], e - s a non-negative whole number
\* of hours, in which every request succeeds, completes having issued exactly
\* (e - s in hours) + 1 GetCoverage requests, the i-th with subset time
\* s + (i - 1) hours (so in strictly increasing order, the last one being e).
C1_OneRequestPerHour ==
    EndedAllOk =>
        /\ result.exit = "completed"
        /\ Len(CoverageRequests) = AbsHours(WindowEnd.dt) - AbsHours(WindowStart.dt) + 1
        /\ \A i \in 1..Len(CoverageRequests) :
              LET t == SubsetTimeOf(CoverageRequests[i].subset)
              IN  /\ AbsHours(t) = AbsHours(WindowStart.dt) + i - 1
                  /\ t[5] = WindowStart.dt[5] /\ t[6] = WindowStart.dt[6]
                  /\ CoverageRequests[i].subset
                       = SubsetParam(Strftime(t, SubsetTimeFormat))

\* A download of a window of MaxHours hours, which crosses midnight and the
\* end of the month, has ended with every request successful
C1_Witness ==
    /\ EndedAllOk
    /\ AbsHours(WindowEnd.dt) - AbsHours(WindowStart.dt) = MaxHours
    /\ Len(CoverageRequests) = MaxHours + 1

\* C2: no request loop reports an error on a timed-out attempt, and a request
\* that succeeded after N timed-out attempts was waited for N times.
C2_TimeoutsAreRetried ==
    /\ fetch.state # "timeout"
    /\ fetch.state = "ok" => fetch.waits = fetch.timeouts

\* The attempts of the running (or last) request loop: the last
\* fetch.timeouts + 1 attempts of the call when the loop has ended
LoopStart == Len(requests) - fetch.timeouts

\* The call has told its caller that it failed: by None or an exception
\* where it would have returned a value, and, for get_status, whose value is
\* the state of the service, by the exception or by "offline"
FailureSignalled ==
    \/ result.kind \in {"None", "raise"} /\ result.exit \notin {"completed", "found"}
    \/ local.op = "get_status" /\ result.kind = "str" /\ result.str = Offline

\* C3: an attempt that fails with anything but a timeout is the last attempt
\* of its call: the call has ended without a success, and the request loop
\* slept only once per timed-out attempt before it (no wait after the failure).
C3_FailFast ==
    \A i \in 1..Len(requests) :
        requests[i].outcome = "error" =>
            /\ i = Len(requests)
            /\ pc = "idle"
            /\ fetch.state = "error"
            /\ fetch.waits = fetch.timeouts
            /\ \A j \in LoopStart..(i - 1) :
                  requests[j].outcome = "timeout" /\ requests[j].endpoint = requests[i].endpoint
            /\ FailureSignalled

\* A request failed right after a timed-out attempt of the same request
C3_Witness ==
    /\ Len(requests) >= 2
    /\ requests[Len(requests)].outcome = "error"
    /\ requests[Len(requests) - 1].outcome = "timeout"
    /\ requests[Len(requests) - 1].endpoint = "GetCoverage"
    /\ fetch.waits = 1

\* The placeholder of the instance's templates
FieldOf(c) == IF c = "arome001_downloader" THEN RunTimeField ELSE ReferenceTimeField

\* The prefix and the suffix the instance's configuration gives a data type's
\* coverage ids
PrefixOf(data_type) == IF data_type = Rain THEN RainPrefix ELSE TempPrefix

SuffixOf(data_type) ==
    IF EndsWith(TemplateOf(FieldOf(cls), data_type), HourlySuffix) THEN HourlySuffix ELSE << >>

\* The positions of the listed ids that start with the prefix and end with the suffix
Matching(ids, data_type) ==
    {i \in 1..Len(ids) :
        StartsWith(ids[i], PrefixOf(data_type)) /\ EndsWith(ids[i], SuffixOf(data_type))}

\* The run identifier of a matching id: what is between prefix and suffix
RunIdOf(id, data_type) ==
    SubSeq(id, Len(PrefixOf(data_type)) + 1, Len(id) - Len(SuffixOf(data_type)))

\* Run identifier a is chronologically later than b
LaterRun(a, b) == DtGreater(Strptime(a, RunTimeFormat).dt, Strptime(b, RunTimeFormat).dt)

\* The capabilities body is XML in which every CoverageSummary has a CoverageId
WellFormed(body) ==
    body.xml /\ \A i \in 1..Len(body.summaries) : body.summaries[i] # NoCoverageId

\* A discovery call has ended whose capabilities request succeeded with a
\* well-formed document
Discovered == pc = "idle" /\ IsDiscovery /\ fetch.state = "ok" /\ WellFormed(doc)

\* C4: for every capabilities document, latest_run returns the
\* chronologically greatest run identifier among the matching ids, and
\* NotFound when no id matches.
C4_LatestRun ==
    Discovered =>
        LET ids == doc.summaries
            m == Matching(ids, local.data_type)
        IN  IF m = {} THEN result.exit = "not_found"
            ELSE /\ result.kind = "str"
                 /\ \E i \in m : result.str = RunIdOf(ids[i], local.data_type)
                 /\ \A j \in m : ~LaterRun(RunIdOf(ids[j], local.data_type), result.str)

\* C5: the template formatted with run identifier R, listed alone, is
\* extracted by latest_run to R again, for every template and every R.
C5_RoundTrip ==
    Discovered =>
        \A r \in RunIds :
            doc.summaries = <<FormatStr(TemplateOf(FieldOf(cls), local.data_type), FieldOf(cls), r)>>
                => result.kind = "str" /\ result.str = r

\* What a caller sees of how a call ended: the returned value, or the class
\* of the exception and its message (one message per raise statement)
Observable(r) ==
    [kind |-> r.kind, str |-> r.str, items |-> r.items, exc |-> r.exc,
     message |-> IF r.kind = "raise" THEN r.exit ELSE ""]

\* What the caller of a download sees when the download has completed: both
\* downloads end without a return statement
CompletedOutcome == Observable(ReturnNone("completed"))

\* The call has ended in something its caller can tell from a completed
\* download
FailureReported == pc = "idle" /\ Observable(result) # CompletedOutcome

\* C6: when the fetch of an hour fails (not by a timeout), that attempt is the
\* download's last request, the download has ended reporting a failure (an
\* outcome its caller can tell from that of a completed download), the
\* files it wrote are exactly those of the earlier hours, each still in the
\* directory, and it wrote no run metadata.
C6_AbortOnHourFailure ==
    \A i \in 1..Len(requests) :
        (IsDownload /\ requests[i].endpoint = "GetCoverage" /\ requests[i].outcome = "error") =>
            /\ i = Len(requests)
            /\ pc = "idle"
            /\ FailureReported
            /\ \A k \in 1..Len(written) :
                  /\ written[k].name # RunInfoName
                  /\ written[k].name \in DOMAIN files
                  /\ AbsHours(SubsetTimeOf(written[k].subset))
                       < AbsHours(SubsetTimeOf(requests[i].subset))
                  /\ \E j \in 1..(i - 1) :
                        /\ requests[j].endpoint = "GetCoverage"
                        /\ requests[j].outcome = "ok"
                        /\ requests[j].subset = written[k].subset
            /\ \A j \in 1..(i - 1) :
                  (requests[j].endpoint = "GetCoverage" /\ requests[j].outcome = "ok") =>
                      \E k \in 1..Len(written) : written[k].subset = requests[j].subset
            /\ RunInfoName \notin DOMAIN files

\* The fetch of the last hour of the longest window failed after the files
\* of the hours before it were written
C6_Witness ==
    /\ IsDownload
    /\ Len(requests) >= 1
    /\ requests[Len(requests)].endpoint = "GetCoverage"
    /\ requests[Len(requests)].outcome = "error"
    /\ Len(written) = MaxHours
    /\ Cardinality(DOMAIN files) = MaxHours

\* C7: a download that completed its hourly steps wrote run_info.json last,
\* once, and the directory's run_info.json holds the download's run_time and
\* the start and the end of its window.
C7_RunInfoWritten ==
    (pc = "idle" /\ IsDownload /\ result.exit = "completed") =>
        /\ Len(written) >= 1
        /\ written[Len(written)].name = RunInfoName
        /\ \A k \in 1..(Len(written) - 1) : written[k].name # RunInfoName
        /\ RunInfoName \in DOMAIN files
        /\ files[RunInfoName]
             = RunInfo(local.run_time, local.start_time_str, local.end_time_str)

\* The hourly files written by the running (or last) download and by the
\* download completed right before it, each with what it was written for
HourlyWrites ==
    {[name |-> written[k].name, data_type |-> local.data_type,
      run_time |-> local.run_time, subset |-> written[k].subset] :
        k \in {k \in 1..Len(written) : written[k].subset # << >>}}
    \cup
    {[name |-> prev.written[k].name, data_type |-> prev.data_type,
      run_time |-> prev.run_time, subset |-> prev.written[k].subset] :
        k \in {k \in 1..Len(prev.written) : prev.written[k].subset # << >>}}

\* C8: an hourly file's name determines the data type, the run identifier
\* and the subset time it was written for.
C8_FileNamesDistinct ==
    \A a, b \in HourlyWrites : a.name = b.name => a = b

\* The running (or last) call repeated the download completed right before
\* it: same data type, run and window, and all its requests succeeded
Repeated ==
    /\ pc = "idle"
    /\ IsDownload
    /\ prev.op = local.op
    /\ prev.data_type = local.data_type
    /\ prev.run_time = local.run_time
    /\ prev.start_time_str = local.start_time_str
    /\ prev.end_time_str = local.end_time_str
    /\ AllOk(requests)

\* C9: a download repeated with the same data type, run and window, all
\* requests succeeding, completes and leaves the directory with the same set
\* of file names as the first one left.
C9_Idempotent ==
    Repeated => result.exit = "completed" /\ DOMAIN files = prev.after

\* A download of several hours was repeated
C9_Witness == Repeated /\ Cardinality(prev.after) >= 3

\* The window resolution of the running (or last) download has failed: its
\* description request failed, or the description has no time-period envelope
ResolutionFailed ==
    /\ pc = "idle"
    /\ IsDownload
    /\ Len(requests) >= 1
    /\ requests[Len(requests)].endpoint = "DescribeCoverage"
    /\ \/ requests[Len(requests)].outcome = "error"
       \/ requests[Len(requests)].outcome = "ok" /\ local.start_time_str = << >>

\* C10: a failed window resolution ends the download in a signalled failure
\* (None returned or an Exception raised by the code, not a TypeError or
\* AttributeError of the interpreter), and no GetCoverage request is made.
C10_ResolutionFailureIsSignalled ==
    ResolutionFailed =>
        /\ result.exc \notin {"TypeError", "AttributeError"}
        /\ Len(CoverageRequests) = 0

\* A discovery call has ended whose capabilities request succeeded with a
\* body that is no XML, has a CoverageSummary without CoverageId, or lists no
\* id matching the data type's template
NothingToFind ==
    /\ pc = "idle"
    /\ IsDiscovery
    /\ fetch.state = "ok"
    /\ ~WellFormed(doc) \/ Matching(doc.summaries, local.data_type) = {}

\* C11: when the capabilities document is empty or malformed, lacks the
\* coverage-summary structure, or lists no matching id, latest_run ends by
\* returning NotFound (None), not by an exception leaving the call.
C11_NotFoundIsReturned ==
    NothingToFind => result.kind = "None" /\ result.exit = "not_found"

\* How the running (or last) discovery call ends when its request succeeds
\* and the capabilities list no id
NotFoundOutcome ==
    IF cls = "arome001_downloader" THEN get_last_run_result(local.data_type, NoDoc)
    ELSE get_latest_run_result(local.data_type, NoDoc)

\* A discovery call has ended because its capabilities request failed
DiscoveryRequestFailed ==
    pc = "idle" /\ IsDiscovery /\ fetch.state \in {"error", "timeout"}

\* C12: a discovery call whose capabilities request failed ends in an
\* outcome its caller can tell apart from the NotFound outcome of a request
\* that succeeded without a matching id.
C12_FailureIsNotNotFound ==
    DiscoveryRequestFailed => Observable(result) # Observable(NotFoundOutcome)

\* A GetCoverage request is awaited or was made by the running (or last) call
CoverageIssued == pc = "GetCoverage" \/ Len(CoverageRequests) > 0

\* The call is the script's download call, made for a run identifier (the
\* one its discovery call returned, see main_download_last_run), and its
\* window was resolved by a successful description request, its first request
AfterDiscoveryAndResolution ==
    /\ calls = 2
    /\ local.op = "download_last_run"
    /\ Strptime(local.run_time, RunTimeFormat).ok
    /\ local.coverage_id
         = FormatStr(TemplateOf(ReferenceTimeField, Rain), ReferenceTimeField, local.run_time)
    /\ Len(requests) >= 1
    /\ requests[1].endpoint = "DescribeCoverage"
    /\ requests[1].outcome = "ok"
    /\ \A i \in 2..Len(requests) : requests[i].endpoint = "GetCoverage"
    /\ WindowStart.ok /\ WindowEnd.ok

\* A call of the script has ended in an exception
Stopped == pc = "idle" /\ result.kind = "raise"

\* C13: in every execution of main.py a GetCoverage request is issued only
\* after discovery returned a run identifier and resolution returned a
\* window; once discovery or resolution has ended in Failure or NotFound the
\* script has stopped: no step follows, so no GetCoverage request is issued.
C13_CoverageOnlyAfterDiscoveryAndResolution ==
    /\ [](CoverageIssued => AfterDiscoveryAndResolution)
    /\ [](Stopped => Len(CoverageRequests) = 0 \/ requests[Len(requests)].outcome # "ok")
    /\ [][~Stopped]_vars

\* The script has downloaded the hours of a window of MaxHours hours
C13_Witness ==
    /\ calls = 2
    /\ pc = "idle"
    /\ result.exit = "completed"
    /\ Len(CoverageRequests) = MaxHours + 1

\* A call has ended that was made with a data type the instance's
\* configuration does not have
UnconfiguredCall ==
    /\ pc = "idle"
    /\ calls >= 1
    /\ (IsDiscovery \/ IsDownload)
    /\ TemplateOf(FieldOf(cls), local.data_type) = << >>

\* C14: a call with an unconfigured data type ends at once in a raised
\* error of a class of its own (not the value or the exception class that
\* reports NotFound or a transport failure), having made no request and no
\* retry wait, and with the directory as the download before it left it.
C14_UnconfiguredRaises ==
    UnconfiguredCall =>
        /\ result.kind = "raise"
        /\ result.exc \notin {"", "Exception"}
        /\ \A d \in DOMAIN Templates(FieldOf(cls)) :
              Observable(result)
                # Observable(IF cls = "arome001_downloader" THEN get_last_run_result(d, NoDoc)
                             ELSE get_latest_run_result(d, NoDoc))
        /\ requests = << >>
        /\ fetch = NoFetch
        /\ prev.op # "" => DOMAIN files = prev.after

\* The static offsets [a, b] in hours the specification lets a data type's
\* configuration carry
TimeOffsetRange(data_type) == <<0, MaxHours>>

\* A download of a configured data type has ended with every request successful
DownloadedAllOk ==
    /\ pc = "idle"
    /\ IsDownload
    /\ TemplateOf(FieldOf(cls), local.data_type) # << >>
    /\ AllOk(requests)

\* C15: a download for a data type with offsets [a, b] and run time R uses
\* the window [R + a hours, R + b hours], makes no request to resolve it,
\* and writes b - a + 1 hourly files, one per hour of that window.
C15_StaticWindow ==
    DownloadedAllOk =>
        LET R == Strptime(local.run_time, RunTimeFormat).dt
            a == TimeOffsetRange(local.data_type)[1]
            b == TimeOffsetRange(local.data_type)[2]
            hourly == {k \in 1..Len(written) : written[k].subset # << >>}
        IN  /\ \A i \in 1..Len(requests) : requests[i].endpoint = "GetCoverage"
            /\ Cardinality(hourly) = b - a + 1
            /\ \A n \in a..b :
                  \E k \in hourly :
                      written[k].subset = SubsetParam(Strftime(AddHours(R, n), SubsetTimeFormat))

\* A step in which an attempt of the running call timed out
TimedOutStep ==
    /\ Len(requests') = Len(requests) + 1
    /\ requests'[Len(requests')].outcome = "timeout"

\* The call goes on with the same request after one more backoff wait,
\* whatever the number of timeouts before
RetriedStep ==
    /\ pc' = pc
    /\ fetch'.waits = fetch.waits + 1
    /\ fetch'.state = "pending"
    /\ written' = written
    /\ result' = result

\* The running download has ended, completed or at its first failure
DownloadEnded ==
    /\ pc = "idle"
    /\ \A i \in 1..(Len(requests) - 1) : requests[i].outcome # "error"
    /\ result.exit = "completed" => requests[Len(requests)].outcome = "ok"

\* C16: when no request times out forever, every started run download
\* eventually ends, completed or at its first failure that is no timeout; a
\* timed-out attempt never ends it: it waits and makes the request again, so
\* only the service's answers bound the number of attempts.
C16_DownloadTerminates ==
    /\ (pc # "idle") ~> DownloadEnded
    /\ [][TimedOutStep => RetriedStep]_vars

\* A download has completed one of whose requests had timed out
C16_Witness ==
    /\ pc = "idle"
    /\ local.op = "download_run"
    /\ result.exit = "completed"
    /\ CountTimeouts(requests) = MaxTimeouts
    /\ Len(CoverageRequests) >= 2

\* The text is a run time in the fixed, zero-padded format
FixedFormat(r) ==
    LET parsed == Strptime(r, RunTimeFormat)
    IN  parsed.ok /\ Strftime(parsed.dt, RunTimeFormat) = r

\* C17: on a capabilities document whose matching ids all carry a run time
\* in the fixed format, the selection by string comparison (get_latest_run)
\* and the selection by parsed datetime comparison (get_last_run), run with
\* the same prefix and suffix, both return a run identifier, and the same one.
C17_SameSelection ==
    Discovered =>
        LET ids == doc.summaries
            m == Matching(ids, local.data_type)
            byDatetime == get_last_run_scan(ids, 1, PrefixOf(local.data_type),
                                            SuffixOf(local.data_type),
                                            [has |-> FALSE, dt |-> NoTime])
            byString == get_latest_run_scan(ids, 1, PrefixOf(local.data_type),
                                            SuffixOf(local.data_type), << >>)
        IN  (m # {} /\ \A i \in m : FixedFormat(RunIdOf(ids[i], local.data_type))) =>
                /\ ~byDatetime.raised /\ byDatetime.has
                /\ ~byString.raised /\ byString.time # << >>
                /\ byString.time = Strftime(byDatetime.dt, RunTimeFormat)

\* The running (or last) call is a download_run with a configured data type
StartedDownloadRun ==
    /\ cls = "arome001_downloader"
    /\ local.op = "download_run"
    /\ TemplateOf(RunTimeField, local.data_type) # << >>

\* C18: from before its first request to after its end, whatever its
\* outcome, a download_run with a configured data type has a directory
\* that holds exactly the files this call has written, with the content this
\* call wrote: no entry from before the call is left.
C18_OnlyOwnFiles ==
    StartedDownloadRun =>
        /\ dirExists
        /\ DOMAIN files = {written[k].name : k \in 1..Len(written)}
        /\ \A k \in 1..Len(written) :
              files[written[k].name]
                = IF written[k].name = RunInfoName
                  THEN RunInfo(local.run_time, local.start_time_str, local.end_time_str)
                  ELSE GribBody(local.coverage_id, written[k].subset)
        /\ requests = << >> => files = NoFiles

\* A download_run whose window resolution failed has left empty the
\* directory an earlier download had filled
C18_Witness ==
    /\ StartedDownloadRun
    /\ pc = "idle"
    /\ result.exit = "unpack"
    /\ prev.op = "download_run"
    /\ Cardinality(prev.after) >= 2
    /\ files = NoFiles

\* The hours s, s + 1h, ... up to e of the window [s, e], as the numbers of
\* hours after s (none when e is before s)
WindowHours(s, e) ==
    {n \in 0..(AbsHours(e) - AbsHours(s)) :
        \/ AbsHours(s) + n < AbsHours(e)
        \/ 60 * e[5] + e[6] >= 60 * s[5] + s[6]}

\* The hourly files of the directory
HourlyFiles == {n \in DOMAIN files : n # RunInfoName}

\* When the directory has a run_info.json it has one hourly file for every
\* hour of the window that run_info.json records, and no other
RunInfoHasItsHours ==
    RunInfoName \in DOMAIN files =>
        LET s == Strptime(files[RunInfoName].start_time, SubsetTimeFormat).dt
            e == Strptime(files[RunInfoName].end_time, SubsetTimeFormat).dt
            hours == WindowHours(s, e)
            have == {AbsSeconds(SubsetTimeOf(files[f].subset)) : f \in HourlyFiles}
        IN  /\ \A n \in hours : AbsSeconds(s) + 3600 * n \in have
            /\ Cardinality(HourlyFiles) = Cardinality(hours)

\* The running (or last) call is a download_run that is in progress or has
\* ended without completing
UnfinishedDownloadRun ==
    /\ cls = "arome001_downloader"
    /\ local.op = "download_run"
    /\ (pc # "idle" \/ result.exit # "completed")

\* C19 as stated: in every state of an arome001_downloader, when the
\* directory has a run_info.json it has one hourly file for every hour of
\* the window that run_info.json records; and while any download_run is
\* running, or after it has failed, the directory has no run_info.json, also
\* none of an earlier run.
C19_NoRunInfoUnlessCompleted ==
    cls = "arome001_downloader" =>
        /\ RunInfoHasItsHours
        /\ UnfinishedDownloadRun => RunInfoName \notin DOMAIN files

\* C19, amended: in every state of an arome001_downloader, when the
\* directory has a run_info.json it has one hourly file for every hour of
\* the window that run_info.json records, and no other; while a download_run
\* with a configured data type is running, or after it has failed, the
\* directory has no run_info.json, also none of an earlier run; and a
\* download_run with an unconfigured data type leaves the directory as the
\* completed download before it left it, its run_info.json included.
C19_RunInfoMeansComplete ==
    cls = "arome001_downloader" =>
        /\ RunInfoHasItsHours
        /\ (UnfinishedDownloadRun /\ StartedDownloadRun) => RunInfoName \notin DOMAIN files
        /\ (UnfinishedDownloadRun /\ ~StartedDownloadRun /\ prev.op # "") =>
              /\ DOMAIN files = prev.after
              /\ RunInfoName \in DOMAIN files

\* A download_run has completed and left run_info.json with the hourly
\* files of a window that is no whole number of hours long
C19_Witness ==
    /\ StartedDownloadRun
    /\ pc = "idle"
    /\ result.exit = "completed"
    /\ RunInfoName \in DOMAIN files
    /\ ~WholeHourWindow
    /\ Cardinality(HourlyFiles) = 2

\* Second t is in the window of seconds [s, e], a whole number of hours after s
OnHourOfWindow(t, s, e) == s <= t /\ t <= e /\ (t - s) % 3600 = 0

\* C20: in every state of a download, whatever its window, every
\* GetCoverage request made or awaited has a subset time t with start <= t
\* <= end and t - start a whole number of hours, and the coverage id that is
\* the data type's template formatted with the run identifier; a window that
\* ends before it starts has no GetCoverage request.
C20_RequestsWithinWindow ==
    (IsDownload /\ CoverageIssued) =>
        LET start == WindowStart
            end == WindowEnd
            s == AbsSeconds(start.dt)
            e == AbsSeconds(end.dt)
            id == FormatStr(TemplateOf(FieldOf(cls), local.data_type), FieldOf(cls),
                            local.run_time)
        IN  /\ start.ok /\ end.ok
            /\ e >= s
            /\ pc = "GetCoverage" => OnHourOfWindow(AbsSeconds(local.current_time), s, e)
            /\ \A i \in 1..Len(requests) :
                  requests[i].endpoint = "GetCoverage" =>
                      LET t == SubsetTimeOf(requests[i].subset)
                      IN  /\ OnHourOfWindow(AbsSeconds(t), s, e)
                          /\ requests[i].subset = SubsetParam(Strftime(t, SubsetTimeFormat))
                          /\ requests[i].coverage_id = id

\* An AromeDownloader has made the requests of a window that is no whole
\* number of hours long
C20_Witness ==
    /\ cls = "AromeDownloader"
    /\ pc = "idle"
    /\ IsDownload
    /\ result.exit = "completed"
    /\ WindowStart.ok /\ WindowEnd.ok
    /\ (AbsSeconds(WindowEnd.dt) - AbsSeconds(WindowStart.dt)) % 3600 # 0
    /\ Len(CoverageRequests) = 2

====
